---- MODULE Spec2Model ----
(***************************************************************************)
(* MediChatPro: the document ingestion pipeline and the bulk re-indexing   *)
(* (app/s3_utils.py), the vector index (app/vectorstore_utils.py), the     *)
(* text normalizer (app/pdf_utils.py) they call, and the text splitter of  *)
(* the Process Documents handler (main.py).                                *)
(*                                                                         *)
(* Strings are sequences of one-character strings.                         *)
(***************************************************************************)
EXTENDS Integers, Sequences, FiniteSets, TLC

VARIABLES
    bucket,          \* the S3 bucket: storage key -> stored blob
    uploaded_files,  \* argument of the running process_uploaded_files_with_s3
    pos,             \* number of files the for loop has finished
    results,         \* the results dictionary of the running call
    trace,           \* per finished file: what the backend was asked and answered
    pc,              \* "idle" | "loop" | "returned"
    chroma,          \* the collection CHROMA_COLLECTION of the Chroma backend
    sess,            \* per session: the running vector-store call and its locals
    calls,           \* number of vector-store calls started so far
    process,         \* the hash seed of the running Python process
    reindex,         \* the running process_all_s3_documents_for_vector_storage
    chunker,         \* the last text_splitter.split_text call and what it returned
    normalizer       \* the last clean_text call, what it returned, and
                     \* clean_text of what it returned

s3vars == <<bucket, uploaded_files, pos, results, trace, pc>>

ixvars == <<chroma, sess, calls, process>>

auxvars == <<reindex, chunker, normalizer>>

vars == <<bucket, uploaded_files, pos, results, trace, pc, chroma, sess, calls,
          process, reindex, chunker, normalizer>>

\* ------------------------------------------------------------------ bounds

MaxFiles == 2

MaxTexts == 3

BatchSize == 2

MaxCalls == 2

MaxK == 2

MaxRestarts == 1

MaxObjects == 2

MaxLen == 6

MaxChunk == 3

MaxRaw == 5

\* ------------------------------------------------------------------ text

Whitespace == {" ", "\n"}

AlnumChars == {"a", "b", "x", "y"}

RECURSIVE FirstGt(_, _)
\* position of the first ">" of s at or after p, 0 when there is none
FirstGt(s, p) ==
    IF p > Len(s) THEN 0
    ELSE IF s[p] = ">" THEN p
    ELSE FirstGt(s, p + 1)

RECURSIVE RemoveTags(_)
\* re.sub(r'<[^>]+>', '', text)
RemoveTags(s) ==
    IF s = <<>> THEN <<>>
    ELSE IF Head(s) = "<"
         THEN LET q == FirstGt(s, 2)
              IN  IF q > 2
                  THEN RemoveTags(SubSeq(s, q + 1, Len(s)))
                  ELSE <<Head(s)>> \o RemoveTags(Tail(s))
         ELSE <<Head(s)>> \o RemoveTags(Tail(s))

RECURSIVE CollapseWhitespace(_)
\* re.sub(r'\s+', ' ', text)
CollapseWhitespace(s) ==
    IF s = <<>> THEN <<>>
    ELSE IF Head(s) \in Whitespace
         THEN IF Len(s) > 1 /\ s[2] \in Whitespace
              THEN CollapseWhitespace(Tail(s))
              ELSE <<" ">> \o CollapseWhitespace(Tail(s))
         ELSE <<Head(s)>> \o CollapseWhitespace(Tail(s))

RECURSIVE RemoveBlankLines(_)
\* re.sub(r'\n\s*\n', '\n', text)
RemoveBlankLines(s) ==
    IF s = <<>> THEN <<>>
    ELSE IF Head(s) = "\n"
         THEN LET IsEnd(q) == /\ q \in 2..Len(s)
                              /\ s[q] = "\n"
                              /\ \A r \in 2..(q - 1) : s[r] \in Whitespace
                  ends == {q \in 2..Len(s) : IsEnd(q)}
              IN  IF ends # {}
                  THEN LET q == CHOOSE e \in ends : \A f \in ends : f <= e
                       IN  <<"\n">> \o RemoveBlankLines(SubSeq(s, q + 1, Len(s)))
                  ELSE <<Head(s)>> \o RemoveBlankLines(Tail(s))
         ELSE <<Head(s)>> \o RemoveBlankLines(Tail(s))

RECURSIVE LStrip(_)
LStrip(s) ==
    IF s # <<>> /\ Head(s) \in Whitespace THEN LStrip(Tail(s)) ELSE s

RECURSIVE RStrip(_)
RStrip(s) ==
    IF s # <<>> /\ s[Len(s)] \in Whitespace
    THEN RStrip(SubSeq(s, 1, Len(s) - 1))
    ELSE s

\* str.strip()
Strip(s) == RStrip(LStrip(s))

\* clean_text that strips and collapses before it removes the tags
clean_text_TagsLast(text) ==
    IF text = <<>> THEN <<>>
    ELSE RemoveTags(Strip(RemoveBlankLines(CollapseWhitespace(text))))

\* clean_text(text)
clean_text(text) ==
    IF text = <<>> THEN <<>>
    ELSE Strip(RemoveBlankLines(CollapseWhitespace(RemoveTags(text))))

\* ------------------------------------------------------------- S3 storage

\* the filenames an upload can carry ("b/" has a character the key drops)
FileNames == {<<"a">>, <<"b", "/">>}

\* the bytes of an upload and what extract_text_func makes of them: the
\* extracted text, or an exception for bytes pypdf cannot read
FileBodies ==
    { [kind |-> "corrupt", text |-> <<>>],
      [kind |-> "pdf", text |-> <<" ", "x">>],
      [kind |-> "pdf", text |-> <<"y">>] }

UploadedFile == [name : FileNames, body : FileBodies]

\* what a request to the object store can come back with
NetOutcomes == {"ok", "error"}

CharCode ==
    [c \in {"a", "b", "x", "y", " ", "\n", "/", "<", ">"} |->
        CASE c = "a" -> 1 [] c = "b" -> 2 [] c = "x" -> 3 [] c = "y" -> 4
          [] c = " " -> 5 [] c = "\n" -> 6 [] c = "/" -> 7 [] c = "<" -> 8
          [] c = ">" -> 9]

\* hashlib.md5(content.encode()).hexdigest(): 32 hexadecimal digits that
\* tell the modelled texts apart (a digit per character, then zeros)
Md5(content) ==
    [i \in 1..32 |-> IF i <= Len(content) THEN CharCode[content[i]] ELSE 0]

\* hexdigest()[:8]
Md5Hex8(content) == SubSeq(Md5(content), 1, 8)

\* c.isalnum() or c in (' ', '-', '_', '.')
KeptInKey(c) == c \in AlnumChars \/ c \in {" ", "-", "_", "."}

\* generate_document_key(filename, content): "documents/{hash}_{clean_filename}"
generate_document_key(filename, content) ==
    [hash |-> Md5Hex8(content),
     name |-> RStrip(SelectSeq(filename, KeptInKey))]

\* check_document_exists_in_s3(filename, content_text), head_object answering net
check_document_exists_in_s3(filename, content_text, net, store) ==
    LET key == generate_document_key(filename, content_text)
    IN  IF net = "ok" /\ key \in DOMAIN store
        THEN [exists |-> TRUE, error |-> FALSE, s3_key |-> key, head |-> "200"]
        ELSE IF net = "ok"
             THEN [exists |-> FALSE, error |-> FALSE, s3_key |-> key, head |-> "404"]
             ELSE [exists |-> FALSE, error |-> TRUE, s3_key |-> key, head |-> "error"]

\* put_object(Bucket, Key, Body, Metadata): writes or overwrites the blob
put_object(store, key, body, filename, content_text) ==
    [k \in DOMAIN store \cup {key} |->
        IF k = key
        THEN [body |-> body, filename |-> filename, content_hash |-> Md5(content_text)]
        ELSE store[k]]

\* upload_document_to_s3(file_content, filename, content_text), put_object answering net
upload_document_to_s3(filename, content_text, net) ==
    IF net = "ok"
    THEN [success |-> TRUE, s3_key |-> generate_document_key(filename, content_text)]
    ELSE [success |-> FALSE, s3_key |-> generate_document_key(filename, content_text)]

\* the store after upload_document_to_s3
StoreAfterUpload(store, body, filename, content_text, net) ==
    IF net = "ok"
    THEN put_object(store, generate_document_key(filename, content_text),
                    body, filename, content_text)
    ELSE store

\* the blob of exactly this (filename, content_text) is in the store
Stored(store, filename, content_text) ==
    LET key == generate_document_key(filename, content_text)
    IN  /\ key \in DOMAIN store
        /\ store[key].filename = filename
        /\ store[key].content_hash = Md5(content_text)

\* the decimal digit of a digit of the modelled digest
HexDigit(d) ==
    CASE d = 0 -> "0" [] d = 1 -> "1" [] d = 2 -> "2" [] d = 3 -> "3"
      [] d = 4 -> "4" [] d = 5 -> "5" [] d = 6 -> "6" [] d = 7 -> "7"
      [] d = 8 -> "8" [] d = 9 -> "9"

\* obj['Key'].split('/')[-1] of a key "documents/{hash}_{clean_filename}"
KeyTail(key) ==
    [j \in 1..Len(key.hash) |-> HexDigit(key.hash[j])] \o <<"_">> \o key.name

\* the characters of a key as numbers, in the order S3 compares them
KeyCodes(key) ==
    key.hash \o [j \in 1..Len(key.name) |-> 10 + CharCode[key.name[j]]]

RECURSIVE LexLess(_, _)
\* u comes before v in lexicographic order
LexLess(u, v) ==
    IF v = <<>> THEN FALSE
    ELSE IF u = <<>> THEN TRUE
    ELSE IF Head(u) # Head(v) THEN Head(u) < Head(v)
    ELSE LexLess(Tail(u), Tail(v))

RECURSIVE Contents(_)
\* response['Contents'] of list_objects_v2: the keys in lexicographic order
Contents(keys) ==
    IF keys = {} THEN <<>>
    ELSE LET first == CHOOSE k \in keys :
                        \A other \in keys \ {k} : LexLess(KeyCodes(k), KeyCodes(other))
         IN  <<first>> \o Contents(keys \ {first})

\* list_documents_in_s3(): net is the answer of list_objects_v2, heads[key]
\* that of head_object for the key
list_documents_in_s3(store, net, heads) ==
    IF net # "ok" THEN <<>>
    ELSE LET contents == Contents(DOMAIN store)
         IN  [j \in 1..Len(contents) |->
                 [key |-> contents[j],
                  filename |-> IF heads[contents[j]] = "ok"
                               THEN store[contents[j]].filename
                               ELSE KeyTail(contents[j])]]

\* download_document_from_s3(s3_key), get_object answering net
download_document_from_s3(s3_key, net, store) ==
    IF net = "ok" /\ s3_key \in DOMAIN store
    THEN [success |-> TRUE, content |-> store[s3_key].body,
          filename |-> store[s3_key].filename]
    ELSE [success |-> FALSE, content |-> [kind |-> "none", text |-> <<>>],
          filename |-> <<>>]

\* DocumentProcessed that gives up on a failed download: return []
DocumentProcessed_Abort(all_texts, download_result) ==
    IF download_result.success
    THEN IF download_result.content.kind = "corrupt" THEN all_texts
         ELSE LET text_content == clean_text(download_result.content.text)
              IN  IF text_content # <<>> /\ Strip(text_content) # <<>>
                  THEN Append(all_texts, text_content)
                  ELSE all_texts
    ELSE <<>>

\* one pass of the for loop of process_all_s3_documents_for_vector_storage,
\* lines 305-328: all_texts after the document is handled
DocumentProcessed(all_texts, download_result) ==
    IF download_result.success
    THEN IF download_result.content.kind = "corrupt" THEN all_texts
         ELSE LET text_content == clean_text(download_result.content.text)
              IN  IF text_content # <<>> /\ Strip(text_content) # <<>>
                  THEN Append(all_texts, text_content)
                  ELSE all_texts
    ELSE all_texts

\* no process_all_s3_documents_for_vector_storage is running
NoReindex ==
    [pc |-> "idle", listed |-> {}, heads |-> <<>>, s3_docs |-> <<>>, at |-> 0,
     log |-> <<>>, all_texts |-> <<>>]

EmptyResults ==
    [uploaded_to_s3 |-> <<>>, already_in_s3 |-> <<>>,
     failed_uploads |-> <<>>, all_texts |-> <<>>]

\* FileRaises with the except clause recording nothing
FileRaises_Unrecorded(res, file) == res

\* one pass of the for loop of process_uploaded_files_with_s3 whose
\* read or extraction raises: the inner except records the file as failed
FileRaises(res, file) ==
    [res EXCEPT !.failed_uploads =
        Append(@, [filename |-> file.name, error |-> "extract"])]

\* FileProcessed without the else: the upload is recorded even for a file
\* the existence check found
FileProcessed_NoElse(res, file, text_content, s3_check, upload_result) ==
    LET present ==
            IF s3_check.exists
            THEN [res EXCEPT !.already_in_s3 =
                    Append(@, [filename |-> file.name, s3_key |-> s3_check.s3_key])]
            ELSE res
        recorded ==
            IF upload_result.success
            THEN [present EXCEPT !.uploaded_to_s3 =
                    Append(@, [filename |-> file.name,
                               s3_key |-> upload_result.s3_key])]
            ELSE [present EXCEPT !.failed_uploads =
                    Append(@, [filename |-> file.name, error |-> "upload"])]
    IN  [recorded EXCEPT !.all_texts = Append(@, text_content)]

\* FileProcessed that goes on to the next file once a present document is
\* recorded, without appending its text
FileProcessed_SkipPresent(res, file, text_content, s3_check, upload_result) ==
    IF s3_check.exists
    THEN [res EXCEPT !.already_in_s3 =
            Append(@, [filename |-> file.name, s3_key |-> s3_check.s3_key])]
    ELSE LET recorded ==
                 IF upload_result.success
                 THEN [res EXCEPT !.uploaded_to_s3 =
                        Append(@, [filename |-> file.name,
                                   s3_key |-> upload_result.s3_key])]
                 ELSE [res EXCEPT !.failed_uploads =
                        Append(@, [filename |-> file.name, error |-> "upload"])]
         IN  [recorded EXCEPT !.all_texts = Append(@, text_content)]

\* one pass of the for loop whose extraction succeeds, given the answers
\* s3_check of the existence check and upload_result of the upload
FileProcessed(res, file, text_content, s3_check, upload_result) ==
    LET recorded ==
            IF s3_check.exists
            THEN [res EXCEPT !.already_in_s3 =
                    Append(@, [filename |-> file.name, s3_key |-> s3_check.s3_key])]
            ELSE IF upload_result.success
                 THEN [res EXCEPT !.uploaded_to_s3 =
                        Append(@, [filename |-> file.name,
                                   s3_key |-> upload_result.s3_key])]
                 ELSE [res EXCEPT !.failed_uploads =
                        Append(@, [filename |-> file.name, error |-> "upload"])]
    IN  [recorded EXCEPT !.all_texts = Append(@, text_content)]

\* ------------------------------------------------------------ text splitter

\* the separators RecursiveCharacterTextSplitter tries, in this order
Separators == << <<"\n", "\n">>, <<"\n">>, <<" ">>, <<>> >>

\* text begins with sep
StartsWith(text, sep) ==
    Len(sep) <= Len(text) /\ SubSeq(text, 1, Len(sep)) = sep

\* re.search(separator, text)
Occurs(sep, text) ==
    \E p \in 0..(Len(text) - Len(sep)) : SubSeq(text, p + 1, p + Len(sep)) = sep

RECURSIVE Pieces(_, _, _)
\* re.split(f"({separator})", text) with every separator put in front of the
\* piece that follows it; cur is the piece being read
Pieces(text, sep, cur) ==
    IF text = <<>> THEN <<cur>>
    ELSE IF StartsWith(text, sep)
         THEN <<cur>> \o Pieces(SubSeq(text, Len(sep) + 1, Len(text)), sep, sep)
         ELSE Pieces(Tail(text), sep, Append(cur, Head(text)))

\* _split_text_with_regex(text, separator, keep_separator=True): the pieces
\* that are not empty; without a separator the characters of the text
split_text_with_regex(text, sep) ==
    IF sep = <<>> THEN [j \in 1..Len(text) |-> <<text[j]>>]
    ELSE SelectSeq(Pieces(text, sep, <<>>), LAMBDA piece : piece # <<>>)

RECURSIVE Concat(_)
\* "".join(docs)
Concat(docs) == IF docs = <<>> THEN <<>> ELSE Head(docs) \o Concat(Tail(docs))

\* _join_docs that does not strip the joined text
join_docs_NoStrip(docs) ==
    LET text == Concat(docs) IN IF text = <<>> THEN <<>> ELSE <<text>>

\* _join_docs(docs, ""): the joined text stripped, None when nothing is left
join_docs(docs) ==
    LET text == Strip(Concat(docs)) IN IF text = <<>> THEN <<>> ELSE <<text>>

\* PopFront that keeps nothing of the chunk before
PopFront_Clear(current_doc, len, chunk_size, chunk_overlap) == <<>>

RECURSIVE PopFront(_, _, _, _)
\* the while loop of _merge_splits: pieces are dropped from the front of
\* current_doc while it is longer than the overlap, or does not leave room
\* for the next piece of length len
PopFront(current_doc, len, chunk_size, chunk_overlap) ==
    LET total == Len(Concat(current_doc))
    IN  IF total > chunk_overlap \/ (total + len > chunk_size /\ total > 0)
        THEN PopFront(Tail(current_doc), len, chunk_size, chunk_overlap)
        ELSE current_doc

RECURSIVE MergeFrom(_, _, _, _)
\* the for loop of _merge_splits from the piece Head(splits) on
MergeFrom(splits, current_doc, chunk_size, chunk_overlap) ==
    IF splits = <<>> THEN join_docs(current_doc)
    ELSE LET d == Head(splits)
         IN  IF /\ Len(Concat(current_doc)) + Len(d) > chunk_size
                /\ current_doc # <<>>
             THEN join_docs(current_doc) \o
                  MergeFrom(Tail(splits),
                            Append(PopFront(current_doc, Len(d), chunk_size,
                                            chunk_overlap), d),
                            chunk_size, chunk_overlap)
             ELSE MergeFrom(Tail(splits), Append(current_doc, d),
                            chunk_size, chunk_overlap)

\* _merge_splits(splits, ""): the pieces are joined into chunks of at most
\* chunk_size characters, each chunk beginning with the last pieces of the
\* one before, up to chunk_overlap characters
merge_splits(splits, chunk_size, chunk_overlap) ==
    MergeFrom(splits, <<>>, chunk_size, chunk_overlap)

RECURSIVE split_text_rec(_, _, _, _)
RECURSIVE SplitLoop(_, _, _, _, _)
\* the loop of _split_text over the pieces: pieces shorter than chunk_size are
\* collected and merged, a longer piece is split by the next separators, or
\* kept as it is when there is none left
SplitLoop(splits, good_splits, new_separators, chunk_size, chunk_overlap) ==
    LET merged == IF good_splits = <<>> THEN <<>>
                  ELSE merge_splits(good_splits, chunk_size, chunk_overlap)
    IN  IF splits = <<>> THEN merged
        ELSE IF Len(Head(splits)) < chunk_size
             THEN SplitLoop(Tail(splits), Append(good_splits, Head(splits)),
                            new_separators, chunk_size, chunk_overlap)
             ELSE merged \o
                  (IF new_separators = <<>> THEN <<Head(splits)>>
                   ELSE split_text_rec(Head(splits), new_separators,
                                       chunk_size, chunk_overlap)) \o
                  SplitLoop(Tail(splits), <<>>, new_separators,
                            chunk_size, chunk_overlap)

\* RecursiveCharacterTextSplitter._split_text(text, separators): the first
\* separator that occurs in the text is used, the ones after it are left for
\* the pieces that are too long
split_text_rec(text, separators, chunk_size, chunk_overlap) ==
    LET found == {i \in 1..Len(separators) :
                    separators[i] = <<>> \/ Occurs(separators[i], text)}
        at == IF found = {} THEN Len(separators)
              ELSE CHOOSE i \in found : \A j \in found : i <= j
        separator == separators[at]
        new_separators == IF found = {} \/ separator = <<>> THEN <<>>
                          ELSE SubSeq(separators, at + 1, Len(separators))
    IN  SplitLoop(split_text_with_regex(text, separator), <<>>, new_separators,
                  chunk_size, chunk_overlap)

\* RecursiveCharacterTextSplitter(chunk_size, chunk_overlap,
\* length_function=len).split_text(text)
split_text(text, chunk_size, chunk_overlap) ==
    split_text_rec(text, Separators, chunk_size, chunk_overlap)

\* no text has been normalized
NoClean == [text |-> <<>>, out |-> <<>>, again |-> <<>>]

\* no text has been split
NoSplit == [text |-> <<>>, chunk_size |-> 0, chunk_overlap |-> 0, chunks |-> <<>>]

\* ------------------------------------------------------------ vector index

\* the sessions (script runs) that use the vector store at the same time:
\* session 1 ingests, retrieves and clears, session 2 retrieves and clears
Sessions == {1, 2}

\* the texts handed to create_chroma_collection and the queries
IndexTexts == {<<"x">>, <<" ", "y">>}

\* the lists of texts handed to create_chroma_collection: up to MaxTexts
\* chunks that alternate between the two texts, starting with either
TextLists ==
    LET other(t) == CHOOSE u \in IndexTexts : u # t
    IN  {[j \in 1..n |-> IF j % 2 = 1 THEN t ELSE other(t)] :
            n \in 0..MaxTexts, t \in IndexTexts}

\* what a request to the Chroma backend can come back with
ChromaOutcomes == {"ok", "error"}

\* the embedding model's vector for a text
Embedding(text) ==
    IF text = <<>> THEN <<0>> ELSE <<CharCode[text[1]] + Len(text)>>

\* a vector the service returns beyond the texts it was asked about
StrayVector == <<0>>

\* what get_embeddings(texts) can return: [] when the request fails, answers
\* a status other than 200 or a malformed body; otherwise the vectors of the
\* response, which may be fewer or more than the texts
EmbeddingResponses(texts) ==
    LET n == Len(texts)
    IN  {<<>>}
        \cup {[j \in 1..m |-> Embedding(texts[j])] : m \in 1..n}
        \cup {[j \in 1..(n + 1) |->
                 IF j <= n THEN Embedding(texts[j]) ELSE StrayVector]}

\* hash(text[:50]) in a process whose hash seed is seed: the hash of a str is
\* salted with the seed the interpreter draws at start-up, that of "" is 0
PyHash(text, seed) ==
    LET prefix == SubSeq(text, 1, IF Len(text) < 50 THEN Len(text) ELSE 50)
    IN  IF prefix = <<>> THEN <<>>
        ELSE <<seed>> \o [j \in 1..Len(prefix) |-> CharCode[prefix[j]]]

\* the collection before it is created and after it is deleted
NoCollection == [present |-> FALSE, uid |-> 0, entries |-> <<>>]

\* client.create_collection(CHROMA_COLLECTION) on a backend without it
create_collection(coll) ==
    [present |-> TRUE, uid |-> coll.uid + 1, entries |-> <<>>]

\* client.delete_collection(CHROMA_COLLECTION)
delete_collection(coll) ==
    [present |-> FALSE, uid |-> coll.uid, entries |-> <<>>]

\* the collection a handle refers to is still there
Live(coll, handle) == coll.present /\ coll.uid = handle

RECURSIVE AddEntries(_, _)
\* collection.add(documents, embeddings, ids): an id the collection already
\* holds is left as it is
AddEntries(entries, new) ==
    IF new = <<>> THEN entries
    ELSE IF \E k \in 1..Len(entries) : entries[k].id = Head(new).id
         THEN AddEntries(entries, Tail(new))
         ELSE AddEntries(Append(entries, Head(new)), Tail(new))

\* the locals of a batch before any batch is processed
NoBatch ==
    [i |-> -1, batch_texts |-> <<>>, returned |-> <<>>, add |-> "none",
     documents |-> <<>>, embeddings |-> <<>>, ids |-> <<>>]

NoResult == [kind |-> "none", handle |-> 0, docs |-> <<>>]

\* a session that runs no vector-store call
IdleSession ==
    [op |-> "none", pc |-> "idle", texts |-> <<>>, query |-> <<>>, k |-> 0,
     i |-> 0, total_stored |-> 0, collection |-> 0, last |-> NoBatch,
     ensures |-> 0, err |-> "none", net |-> "ok", result |-> NoResult,
     seed |-> 0]

\* batch_texts = [clean_text(text) for text in texts[i:i + batch_size]]
BatchTexts(texts, i) ==
    LET to == IF i + BatchSize < Len(texts) THEN i + BatchSize ELSE Len(texts)
    IN  [j \in 1..(to - i) |-> clean_text(texts[i + j])]

Min(a, b) == IF a < b THEN a ELSE b

\* Truncate that makes the lengths agree by repeating the last vector
Truncate_Pad(embeddings, batch_texts) ==
    [embeddings |-> [j \in 1..Len(batch_texts) |->
                        embeddings[Min(j, Len(embeddings))]],
     batch_texts |-> batch_texts]

\* lines 88-93: on a count mismatch both lists are cut to the shorter length
Truncate(embeddings, batch_texts) ==
    LET min_len == Min(Len(embeddings), Len(batch_texts))
    IN  IF Len(embeddings) # Len(batch_texts)
        THEN [embeddings |-> SubSeq(embeddings, 1, min_len),
              batch_texts |-> SubSeq(batch_texts, 1, min_len)]
        ELSE [embeddings |-> embeddings, batch_texts |-> batch_texts]

\* BatchIds that leaves the position out of the id
BatchIds_HashOnly(i, batch_texts, seed) ==
    [j \in 1..Len(batch_texts) |->
        [n |-> 0, h |-> PyHash(batch_texts[j], seed)]]

\* batch_ids = [f"doc_{i+j}_{hash(text[:50])}" for j, text in enumerate(batch_texts)]
BatchIds(i, batch_texts, seed) ==
    [j \in 1..Len(batch_texts) |->
        [n |-> i + j - 1, h |-> PyHash(batch_texts[j], seed)]]

\* the loop of create_chroma_collection goes on to the batch at i + batch_size,
\* or ends and the call returns the collection
NextBatch(st) ==
    IF st.i + BatchSize < Len(st.texts)
    THEN [st EXCEPT !.i = st.i + BatchSize, !.pc = "batch"]
    ELSE [st EXCEPT !.i = st.i + BatchSize, !.pc = "done",
                    !.result = [kind |-> "collection", handle |-> st.collection,
                                docs |-> <<>>]]

\* the except clause of create_chroma_collection: return None
ReturnNone(st, why) ==
    [st EXCEPT !.pc = "done", !.err = why,
               !.result = [kind |-> "None", handle |-> 0, docs |-> <<>>]]

\* EmbeddingsFailed that gives up on the whole call
EmbeddingsFailed_Abort(st, batch_texts) ==
    ReturnNone([st EXCEPT !.last =
        [NoBatch EXCEPT !.i = st.i, !.batch_texts = batch_texts]], "embedding")

\* lines 84-86: no embeddings for the batch, skip it
EmbeddingsFailed(st, batch_texts) ==
    NextBatch([st EXCEPT !.last =
        [NoBatch EXCEPT !.i = st.i, !.batch_texts = batch_texts]])

\* EmbeddingsStored that counts the batch as it was before it was cut
EmbeddingsStored_CountBatch(st, batch_texts, returned, add) ==
    LET cut == Truncate(returned, batch_texts)
        rec == [i |-> st.i, batch_texts |-> batch_texts, returned |-> returned,
                add |-> add, documents |-> cut.batch_texts,
                embeddings |-> cut.embeddings,
                ids |-> BatchIds(st.i, cut.batch_texts, st.seed)]
        sent == [st EXCEPT !.last = rec]
    IN  IF add = "ok"
        THEN NextBatch([sent EXCEPT !.total_stored = @ + Len(batch_texts)])
        ELSE ReturnNone(sent, add)

\* lines 88-107: the batch is cut to the shorter length and added; add is
\* the answer of collection.add: "ok", "not_found" or "error"
EmbeddingsStored(st, batch_texts, returned, add) ==
    LET cut == Truncate(returned, batch_texts)
        rec == [i |-> st.i, batch_texts |-> batch_texts, returned |-> returned,
                add |-> add, documents |-> cut.batch_texts,
                embeddings |-> cut.embeddings,
                ids |-> BatchIds(st.i, cut.batch_texts, st.seed)]
        sent == [st EXCEPT !.last = rec]
    IN  IF add = "ok"
        THEN NextBatch([sent EXCEPT !.total_stored = @ + Len(cut.batch_texts)])
        ELSE ReturnNone(sent, add)

\* one pass of the loop of create_chroma_collection, lines 74-107
ProcessBatch(st, returned, add) ==
    LET batch_texts == BatchTexts(st.texts, st.i)
    IN  IF returned = <<>>
        THEN EmbeddingsFailed(st, batch_texts)
        ELSE EmbeddingsStored(st, batch_texts, returned, add)

\* the entries of the add request a pass of the loop has sent
SentEntries(rec) ==
    [j \in 1..Len(rec.documents) |->
        [id |-> rec.ids[j], document |-> rec.documents[j],
         embedding |-> rec.embeddings[j]]]

\* the caller's code after collection = ensure_collection_exists()
AfterEnsure(st, handle, why) ==
    LET got == [st EXCEPT !.collection = handle]
    IN  IF st.op = "create"
        THEN IF handle = 0 THEN ReturnNone(got, why)
             ELSE IF Len(st.texts) = 0
                  THEN [got EXCEPT !.pc = "done",
                                   !.result = [kind |-> "collection",
                                               handle |-> handle, docs |-> <<>>]]
                  ELSE [got EXCEPT !.pc = "batch"]
        ELSE IF handle = 0
             THEN [got EXCEPT !.pc = "done", !.err = why,
                              !.result = [kind |-> "docs", handle |-> 0,
                                          docs |-> <<>>]]
             ELSE [got EXCEPT !.pc = "query"]

\* EnsureGot that creates the collection without looking for it first
EnsureGot_AlwaysCreate(st, coll, net) ==
    IF net = "no_client" THEN AfterEnsure([st EXCEPT !.net = net], 0, "ensure")
    ELSE [st EXCEPT !.net = net, !.pc = "ensure_create"]

\* ensure_collection_exists, lines 138-143: get_collection answered
EnsureGot(st, coll, net) ==
    LET asked == [st EXCEPT !.net = net]
    IN  IF net = "no_client" THEN AfterEnsure(asked, 0, "ensure")
        ELSE IF net = "ok" /\ coll.present THEN AfterEnsure(asked, coll.uid, "none")
        ELSE [asked EXCEPT !.pc = "ensure_create"]

\* ensure_collection_exists, lines 144-152: create_collection answered
EnsureCreated(st, coll, net) ==
    LET asked == [st EXCEPT !.net = net]
    IN  IF net = "ok" /\ ~coll.present
        THEN AfterEnsure(asked, create_collection(coll).uid, "none")
        ELSE AfterEnsure(asked, 0, "ensure")

\* the backend after the create_collection request
CollectionAfterCreate(coll, net) ==
    IF net = "ok" /\ ~coll.present THEN create_collection(coll) ELSE coll

\* the distance Chroma ranks by: smaller is more similar
Distance(u, v) == IF u[1] < v[1] THEN v[1] - u[1] ELSE u[1] - v[1]

RECURSIVE Ranked(_, _, _)
\* the positions in S of entries, nearest to q first, earlier entry first on ties
Ranked(entries, S, q) ==
    IF S = {} THEN <<>>
    ELSE LET best == CHOOSE a \in S : \A b \in S :
                        \/ Distance(entries[a].embedding, q)
                              < Distance(entries[b].embedding, q)
                        \/ /\ Distance(entries[a].embedding, q)
                                = Distance(entries[b].embedding, q)
                           /\ a <= b
         IN  <<best>> \o Ranked(entries, S \ {best}, q)

\* collection.query(query_embeddings=[q], n_results=k)['documents'][0]
QueryDocuments(entries, q, k) ==
    LET order == Ranked(entries, 1..Len(entries), q)
    IN  [j \in 1..Min(k, Len(entries)) |-> entries[order[j]].document]

\* Retrieved that hands the documents to the caller last hit first
Retrieved_Reversed(st, coll, answer, found) ==
    LET docs(d, why) == [st EXCEPT !.pc = "done", !.err = why,
                                   !.result = [kind |-> "docs", handle |-> 0,
                                               docs |-> d]]
        hits == QueryDocuments(coll.entries, answer[1], st.k)
    IN  IF answer = <<>> THEN docs(<<>>, "embedding")
        ELSE IF answer[1] = <<>> THEN docs(<<>>, "embedding")
        ELSE IF found # "ok" THEN docs(<<>>, found)
        ELSE docs([j \in 1..Len(hits) |-> hits[Len(hits) + 1 - j]], "none")

\* Retrieved that answers a query without hits by one document without text
Retrieved_Placeholder(st, coll, answer, found) ==
    LET docs(d, why) == [st EXCEPT !.pc = "done", !.err = why,
                                   !.result = [kind |-> "docs", handle |-> 0,
                                               docs |-> d]]
        hits == QueryDocuments(coll.entries, answer[1], st.k)
    IN  IF answer = <<>> THEN docs(<<>>, "embedding")
        ELSE IF answer[1] = <<>> THEN docs(<<>>, "embedding")
        ELSE IF found # "ok" THEN docs(<<>>, found)
        ELSE docs(IF hits = <<>> THEN << <<>> >> ELSE hits, "none")

\* Retrieved that lets a failed collection.query reach the caller
Retrieved_Propagate(st, coll, answer, found) ==
    LET docs(d, why) == [st EXCEPT !.pc = "done", !.err = why,
                                   !.result = [kind |-> "docs", handle |-> 0,
                                               docs |-> d]]
    IN  IF answer = <<>> THEN docs(<<>>, "embedding")
        ELSE IF answer[1] = <<>> THEN docs(<<>>, "embedding")
        ELSE IF found # "ok"
             THEN [st EXCEPT !.pc = "done", !.err = found,
                             !.result = [kind |-> "raised", handle |-> 0,
                                         docs |-> <<>>]]
        ELSE docs(QueryDocuments(coll.entries, answer[1], st.k), "none")

\* retrieve_relevant_docs, lines 163-196, after the collection is ensured:
\* answer is what get_embeddings([query]) returned, found the answer of
\* collection.query
Retrieved(st, coll, answer, found) ==
    LET docs(d, why) == [st EXCEPT !.pc = "done", !.err = why,
                                   !.result = [kind |-> "docs", handle |-> 0,
                                               docs |-> d]]
    IN  IF answer = <<>> THEN docs(<<>>, "embedding")
        ELSE IF answer[1] = <<>> THEN docs(<<>>, "embedding")
        ELSE IF found # "ok" THEN docs(<<>>, found)
        ELSE docs(QueryDocuments(coll.entries, answer[1], st.k), "none")

\* ------------------------------------------------------- S3 pipeline steps

RECURSIVE SeqsUpTo(_, _)
\* the sequences over S of length at most n
SeqsUpTo(S, n) ==
    IF n = 0 THEN {<<>>}
    ELSE LET shorter == SeqsUpTo(S, n - 1)
         IN  shorter \cup {Append(q, x) : q \in shorter, x \in S}

Init ==
    /\ bucket = <<>>
    /\ uploaded_files = <<>>
    /\ pos = 0
    /\ results = EmptyResults
    /\ trace = <<>>
    /\ pc = "idle"
    /\ chroma = NoCollection
    /\ sess = [s \in Sessions |-> IdleSession]
    /\ calls = 0
    /\ process = 0
    /\ reindex = NoReindex
    /\ chunker = NoSplit
    /\ normalizer = NoClean

\* process_uploaded_files_with_s3(uploaded_files, extract_text_func) is called
StartProcess ==
    /\ pc = "idle"
    /\ \E files \in SeqsUpTo(UploadedFile, MaxFiles) : uploaded_files' = files
    /\ pos' = 0
    /\ results' = EmptyResults
    /\ trace' = <<>>
    /\ pc' = "loop"
    /\ UNCHANGED bucket
    /\ UNCHANGED <<ixvars, auxvars>>

\* one pass of the for loop
ProcessFile ==
    /\ pc = "loop"
    /\ pos < Len(uploaded_files)
    /\ LET file == uploaded_files[pos + 1]
       IN  IF file.body.kind = "corrupt"
           THEN /\ results' = FileRaises(results, file)
                /\ trace' = Append(trace, [head |-> "none", put |-> "none",
                                           stored |-> FALSE])
                /\ UNCHANGED bucket
           ELSE \E headNet \in NetOutcomes, putNet \in NetOutcomes :
                  LET text_content == clean_text(file.body.text)
                      s3_check == check_document_exists_in_s3(
                                      file.name, text_content, headNet, bucket)
                      upload_result == upload_document_to_s3(
                                      file.name, text_content, putNet)
                  IN  /\ results' = FileProcessed(results, file, text_content,
                                                  s3_check, upload_result)
                      /\ bucket' = IF s3_check.exists THEN bucket
                                   ELSE StoreAfterUpload(bucket, file.body, file.name,
                                                         text_content, putNet)
                      /\ trace' = Append(trace,
                            [head |-> s3_check.head,
                             put |-> IF s3_check.exists THEN "none"
                                     ELSE IF putNet = "ok" THEN "ok" ELSE "error",
                             stored |-> Stored(bucket, file.name, text_content)])
    /\ pos' = pos + 1
    /\ UNCHANGED <<uploaded_files, pc>>
    /\ UNCHANGED <<ixvars, auxvars>>

\* the loop is over: return results
ReturnResults ==
    /\ pc = "loop"
    /\ pos = Len(uploaded_files)
    /\ pc' = "returned"
    /\ UNCHANGED <<bucket, uploaded_files, pos, results, trace>>
    /\ UNCHANGED <<ixvars, auxvars>>

\* the caller is done with the returned results
DiscardResults ==
    /\ pc = "returned"
    /\ uploaded_files' = <<>>
    /\ pos' = 0
    /\ results' = EmptyResults
    /\ trace' = <<>>
    /\ pc' = "idle"
    /\ UNCHANGED bucket
    /\ UNCHANGED <<ixvars, auxvars>>

\* delete_document_from_s3(s3_key)
DeleteDocument ==
    /\ pc = "idle"
    /\ \E key \in DOMAIN bucket, net \in NetOutcomes :
         bucket' = IF net = "ok"
                   THEN [k \in DOMAIN bucket \ {key} |-> bucket[k]]
                   ELSE bucket
    /\ UNCHANGED <<uploaded_files, pos, results, trace, pc>>
    /\ UNCHANGED <<ixvars, auxvars>>

Next ==
    \/ StartProcess
    \/ ProcessFile
    \/ ReturnResults
    \/ DiscardResults
    \/ DeleteDocument

Spec == Init /\ [][Next]_vars

\* ------------------------------------------------------ S3 re-indexing steps

\* the contents a caller can hand to upload_document_to_s3: the files of the
\* pipeline and a PDF whose pages hold no text
StoredBodies == FileBodies \cup {[kind |-> "pdf", text |-> <<" ">>]}

\* upload_document_to_s3(file_content, filename, content_text) is called and
\* put_object answers
UploadDocument ==
    /\ reindex.pc = "idle"
    /\ \E name \in FileNames, body \in StoredBodies :
         LET content_text == clean_text(body.text)
             key == generate_document_key(name, content_text)
         IN  /\ Cardinality(DOMAIN bucket \cup {key}) <= MaxObjects
             /\ bucket' = StoreAfterUpload(bucket, body, name, content_text, "ok")
    /\ UNCHANGED <<uploaded_files, pos, results, trace, pc>>
    /\ UNCHANGED <<ixvars, auxvars>>

\* process_all_s3_documents_for_vector_storage(extract_text_func) is called:
\* list_documents_in_s3() runs
ListDocuments ==
    /\ reindex.pc = "idle"
    /\ \E net \in NetOutcomes \cup {"no_client"},
          heads \in [DOMAIN bucket -> NetOutcomes] :
         LET s3_docs == list_documents_in_s3(bucket, net, heads)
         IN  reindex' = [NoReindex EXCEPT
                           !.pc = IF s3_docs = <<>> THEN "returned" ELSE "loop",
                           !.listed = IF net = "ok" THEN DOMAIN bucket ELSE {},
                           !.heads = [j \in 1..Len(s3_docs) |-> heads[s3_docs[j].key]],
                           !.s3_docs = s3_docs]
    /\ UNCHANGED <<s3vars, ixvars, chunker, normalizer>>

\* one pass of the for loop: download, extract, append
ReindexDocument ==
    /\ reindex.pc = "loop"
    /\ reindex.at < Len(reindex.s3_docs)
    /\ \E net \in NetOutcomes :
         LET doc == reindex.s3_docs[reindex.at + 1]
             download_result == download_document_from_s3(doc.key, net, bucket)
         IN  reindex' = [reindex EXCEPT
                           !.at = @ + 1,
                           !.log = Append(@, download_result),
                           !.all_texts = DocumentProcessed(@, download_result)]
    /\ UNCHANGED <<s3vars, ixvars, chunker, normalizer>>

\* the loop is over: return all_texts
ReturnTexts ==
    /\ reindex.pc = "loop"
    /\ reindex.at = Len(reindex.s3_docs)
    /\ reindex' = [reindex EXCEPT !.pc = "returned"]
    /\ UNCHANGED <<s3vars, ixvars, chunker, normalizer>>

\* the caller is done with the returned texts
DiscardTexts ==
    /\ reindex.pc = "returned"
    /\ reindex' = NoReindex
    /\ UNCHANGED <<s3vars, ixvars, chunker, normalizer>>

NextReindex ==
    \/ UploadDocument
    \/ ListDocuments
    \/ ReindexDocument
    \/ ReturnTexts
    \/ DiscardTexts
    \/ DeleteDocument

SpecReindex == Init /\ [][NextReindex]_vars

\* --------------------------------------------- pipeline steps, scanned pages

\* the files of one upload when PDFs without a text layer are among them
MaxScanned == 1

\* process_uploaded_files_with_s3(uploaded_files, extract_text_func) is called
\* with files whose extracted text may be blank
StartProcessScanned ==
    /\ pc = "idle"
    /\ \E files \in SeqsUpTo([name : FileNames, body : StoredBodies], MaxScanned) :
         uploaded_files' = files
    /\ pos' = 0
    /\ results' = EmptyResults
    /\ trace' = <<>>
    /\ pc' = "loop"
    /\ UNCHANGED bucket
    /\ UNCHANGED <<ixvars, auxvars>>

NextScanned ==
    \/ StartProcessScanned
    \/ ProcessFile
    \/ ReturnResults
    \/ DiscardResults

SpecScanned == Init /\ [][NextScanned]_vars

\* ---------------------------------------------------------- splitter steps

\* the texts extract_text_from_pdf returns: normalized by clean_text
SplitTexts == {clean_text(raw) : raw \in SeqsUpTo({"a", " "}, MaxLen)}

\* the 53 characters of "Blood pressure 120/80. Patient reports mild headache."
ExampleText ==
    <<"B", "l", "o", "o", "d", " ", "p", "r", "e", "s", "s", "u", "r", "e", " ",
      "1", "2", "0", "/", "8", "0", ".", " ", "P", "a", "t", "i", "e", "n", "t",
      " ", "r", "e", "p", "o", "r", "t", "s", " ", "m", "i", "l", "d", " ",
      "h", "e", "a", "d", "a", "c", "h", "e", ".">>

\* text_splitter.split_text(text) for a splitter of the given sizes
SplitText ==
    /\ \E text \in SplitTexts, chunk_size \in 1..MaxChunk :
         \E chunk_overlap \in 0..(chunk_size - 1) :
            chunker' = [text |-> text, chunk_size |-> chunk_size,
                        chunk_overlap |-> chunk_overlap,
                        chunks |-> split_text(text, chunk_size, chunk_overlap)]
    /\ UNCHANGED <<s3vars, ixvars, reindex, normalizer>>

\* split_text of the example text with chunk_size = 40, chunk_overlap = 10
SplitExample ==
    /\ chunker' = [text |-> ExampleText, chunk_size |-> 40, chunk_overlap |-> 10,
                   chunks |-> split_text(ExampleText, 40, 10)]
    /\ UNCHANGED <<s3vars, ixvars, reindex, normalizer>>

NextSplit ==
    \/ SplitText
    \/ SplitExample

SpecSplit == Init /\ [][NextSplit]_vars

\* -------------------------------------------------------- normalizer steps

\* the characters of a raw text: a letter, the two kinds of whitespace and
\* the two characters tags are made of
RawChars == {"a", " ", "\n", "<", ">"}

\* clean_text(text) is called on a raw text, and then on the text it returned
CleanText ==
    /\ normalizer = NoClean
    /\ \E text \in SeqsUpTo(RawChars, MaxRaw) :
         normalizer' = [text |-> text, out |-> clean_text(text),
                        again |-> clean_text(clean_text(text))]
    /\ UNCHANGED <<s3vars, ixvars, reindex, chunker>>

NextClean == CleanText

SpecClean == Init /\ [][NextClean]_vars

\* ------------------------------------------------------ vector index steps

\* CollectionAfterBatch that undoes the earlier batches when the call fails
CollectionAfterBatch_Rollback(coll, after) ==
    IF after.last.add = "ok"
    THEN [coll EXCEPT !.entries = AddEntries(@, SentEntries(after.last))]
    ELSE IF after.result.kind = "None"
         THEN [coll EXCEPT !.entries = <<>>]
         ELSE coll

\* the collection after one pass of the loop: an accepted add request has
\* added its entries (100-104); a skipped batch (84-86) and the except
\* clause (112-116) change nothing in the index
CollectionAfterBatch(coll, after) ==
    IF after.last.add = "ok"
    THEN [coll EXCEPT !.entries = AddEntries(@, SentEntries(after.last))]
    ELSE coll

\* the answer of a request made through a collection handle
HandleAnswer(coll, handle, net) ==
    IF net = "error" THEN "error"
    ELSE IF Live(coll, handle) THEN "ok"
    ELSE "not_found"

\* create_chroma_collection(texts) is called
CallCreate(s) ==
    /\ s = 1
    /\ sess[s].pc = "idle"
    /\ calls < MaxCalls
    /\ \E texts \in TextLists :
         sess' = [sess EXCEPT ![s] =
                    [IdleSession EXCEPT !.op = "create", !.pc = "ensure_get",
                                        !.texts = texts, !.ensures = 1,
                                        !.seed = process]]
    /\ calls' = calls + 1
    /\ UNCHANGED <<chroma, process, s3vars, auxvars>>

\* retrieve_relevant_docs(query, k) is called
CallRetrieve(s) ==
    /\ sess[s].pc = "idle"
    /\ calls < MaxCalls
    /\ \E query \in IndexTexts, k \in 1..MaxK :
         sess' = [sess EXCEPT ![s] =
                    [IdleSession EXCEPT !.op = "retrieve", !.pc = "ensure_get",
                                        !.query = query, !.k = k, !.ensures = 1]]
    /\ calls' = calls + 1
    /\ UNCHANGED <<chroma, process, s3vars, auxvars>>

\* clear_chroma_collection() is called
CallClear(s) ==
    /\ sess[s].pc = "idle"
    /\ calls < MaxCalls
    /\ sess' = [sess EXCEPT ![s] =
                  [IdleSession EXCEPT !.op = "clear", !.pc = "clear_get"]]
    /\ calls' = calls + 1
    /\ UNCHANGED <<chroma, process, s3vars, auxvars>>

\* ensure_collection_exists: client.get_collection
EnsureGet(s) ==
    /\ sess[s].pc = "ensure_get"
    /\ \E net \in ChromaOutcomes \cup {"no_client"} :
         sess' = [sess EXCEPT ![s] = EnsureGot(sess[s], chroma, net)]
    /\ UNCHANGED <<chroma, calls, process, s3vars, auxvars>>

\* ensure_collection_exists: client.create_collection
EnsureCreate(s) ==
    /\ sess[s].pc = "ensure_create"
    /\ \E net \in ChromaOutcomes :
         /\ sess' = [sess EXCEPT ![s] = EnsureCreated(sess[s], chroma, net)]
         /\ chroma' = CollectionAfterCreate(chroma, net)
    /\ UNCHANGED <<calls, process, s3vars, auxvars>>

\* create_chroma_collection: one pass of the loop (get_embeddings, collection.add)
Batch(s) ==
    /\ sess[s].pc = "batch"
    /\ \E returned \in EmbeddingResponses(BatchTexts(sess[s].texts, sess[s].i)),
          net \in ChromaOutcomes :
         LET add == HandleAnswer(chroma, sess[s].collection, net)
             after == ProcessBatch(sess[s], returned, add)
         IN  /\ sess' = [sess EXCEPT ![s] = after]
             /\ chroma' = CollectionAfterBatch(chroma, after)
    /\ UNCHANGED <<calls, process, s3vars, auxvars>>

\* retrieve_relevant_docs: get_embeddings([query]) and collection.query
Query(s) ==
    /\ sess[s].pc = "query"
    /\ \E answer \in {<<>>, << <<>> >>, <<Embedding(sess[s].query)>>},
          net \in ChromaOutcomes :
         sess' = [sess EXCEPT ![s] =
                    Retrieved(sess[s], chroma, answer,
                              HandleAnswer(chroma, sess[s].collection, net))]
    /\ UNCHANGED <<chroma, calls, process, s3vars, auxvars>>

\* clear_chroma_collection: client.get_collection
ClearGet(s) ==
    /\ sess[s].pc = "clear_get"
    /\ \E net \in ChromaOutcomes \cup {"no_client"} :
         sess' = [sess EXCEPT ![s] =
                    IF net = "no_client"
                    THEN [sess[s] EXCEPT !.pc = "done", !.net = net,
                             !.result = [kind |-> "False", handle |-> 0, docs |-> <<>>]]
                    ELSE IF net = "ok" /\ chroma.present
                         THEN [sess[s] EXCEPT !.pc = "clear_delete", !.net = net]
                         ELSE [sess[s] EXCEPT !.pc = "done", !.net = net,
                                 !.result = [kind |-> "True", handle |-> 0,
                                             docs |-> <<>>]]]
    /\ UNCHANGED <<chroma, calls, process, s3vars, auxvars>>

\* clear_chroma_collection: client.delete_collection
ClearDelete(s) ==
    /\ sess[s].pc = "clear_delete"
    /\ \E net \in ChromaOutcomes :
         /\ chroma' = IF net = "ok" /\ chroma.present
                      THEN delete_collection(chroma)
                      ELSE chroma
         /\ sess' = [sess EXCEPT ![s] =
                       [sess[s] EXCEPT !.pc = "done", !.net = net,
                          !.result = [kind |-> "True", handle |-> 0, docs |-> <<>>]]]
    /\ UNCHANGED <<calls, process, s3vars, auxvars>>

\* the caller is done with what the call returned
DiscardCall(s) ==
    /\ sess[s].pc = "done"
    /\ sess' = [sess EXCEPT ![s] = IdleSession]
    /\ UNCHANGED <<chroma, calls, process, s3vars, auxvars>>

NextIndex ==
    \/ \E s \in Sessions : CallCreate(s)
    \/ \E s \in Sessions : CallRetrieve(s)
    \/ \E s \in Sessions : CallClear(s)
    \/ \E s \in Sessions : EnsureGet(s)
    \/ \E s \in Sessions : EnsureCreate(s)
    \/ \E s \in Sessions : Batch(s)
    \/ \E s \in Sessions : Query(s)
    \/ \E s \in Sessions : ClearGet(s)
    \/ \E s \in Sessions : ClearDelete(s)
    \/ \E s \in Sessions : DiscardCall(s)

SpecIndex == Init /\ [][NextIndex]_vars

\* the app is stopped and started again: the new Python process draws a new
\* hash seed; the collection lives in the Chroma backend and stays
Restart ==
    /\ \A s \in Sessions : sess[s].pc = "idle"
    /\ process < MaxRestarts
    /\ process' = process + 1
    /\ UNCHANGED <<chroma, sess, calls, s3vars, auxvars>>

\* the Process Documents handler run again and again, also across restarts
NextReingest ==
    \/ CallCreate(1)
    \/ EnsureGet(1)
    \/ EnsureCreate(1)
    \/ Batch(1)
    \/ DiscardCall(1)
    \/ Restart

SpecReingest == Init /\ [][NextReingest]_vars

\* ---------------------------------------------------- S3 pipeline: claims

RECURSIVE Ascending(_)
\* the numbers of S in increasing order
Ascending(S) ==
    IF S = {} THEN <<>>
    ELSE LET m == CHOOSE x \in S : \A y \in S : x <= y
         IN  <<m>> \o Ascending(S \ {m})

\* the filenames of the entries of a result list
EntryNames(list) == [k \in 1..Len(list) |-> list[k].filename]

\* the filenames of the input files at the positions S, in input order
InputNames(S) ==
    LET at == Ascending(S) IN [k \in 1..Len(at) |-> uploaded_files[at[k]].name]

\* the normalized texts of the input files at the positions S, in input order
InputTexts(S) ==
    LET at == Ascending(S)
    IN  [k \in 1..Len(at) |-> clean_text(uploaded_files[at[k]].body.text)]

\* how many entries of the sequence q satisfy name = f
CountName(q, f) == Cardinality({k \in 1..Len(q) : q[k] = f})

Done == 1..pos
Raised == {i \in Done : uploaded_files[i].body.kind = "corrupt"}
Extracted == Done \ Raised

\* C1 (as claimed): a file whose blob (same name, same normalized text) was
\* stored by a successful upload of an earlier call is, when a later call
\* processes it again, recorded in already_in_s3, no put_object is issued for
\* it, and the store holds exactly one blob for it.
C1_ReingestNoPut ==
    \A i \in Extracted :
        (/\ trace[i].stored
         /\ \A j \in 1..(i - 1) : uploaded_files[j].name # uploaded_files[i].name)
        =>  LET name == uploaded_files[i].name
                text == clean_text(uploaded_files[i].body.text)
                key == generate_document_key(name, text)
            IN  /\ trace[i].put = "none"
                /\ \E k \in 1..Len(results.already_in_s3) :
                      /\ results.already_in_s3[k].filename = name
                      /\ results.already_in_s3[k].s3_key = key
                /\ Cardinality({k \in DOMAIN bucket :
                                  bucket[k].content_hash = Md5(text)
                                  /\ bucket[k].filename = name}) = 1

\* C2 (as claimed): two uploads with the same normalized text get the same
\* storage key whatever their filenames, so the store never holds two blobs
\* of the same normalized text.
C2_SameTextSameKey ==
    /\ \A i, j \in 1..Len(uploaded_files) :
          LET fi == uploaded_files[i]
              fj == uploaded_files[j]
          IN  (/\ fi.body.kind = "pdf"
               /\ fj.body.kind = "pdf"
               /\ clean_text(fi.body.text) = clean_text(fj.body.text))
              => generate_document_key(fi.name, clean_text(fi.body.text))
                 = generate_document_key(fj.name, clean_text(fj.body.text))
    /\ \A k1, k2 \in DOMAIN bucket :
          bucket[k1].content_hash = bucket[k2].content_hash => k1 = k2

\* C3 (as claimed): a file whose read or extraction raises is recorded in
\* failed_uploads, and every other file of the batch is recorded as uploaded
\* or already present and its text appended to all_texts, in input order.
C3_OthersUploadedOrPresent ==
    pc = "returned" =>
        /\ \A i \in Raised :
              CountName(EntryNames(results.failed_uploads), uploaded_files[i].name) > 0
        /\ \A i \in Extracted :
              Raised # {} =>
              CountName(EntryNames(results.uploaded_to_s3) \o
                        EntryNames(results.already_in_s3),
                        uploaded_files[i].name) > 0
        /\ results.all_texts = InputTexts(Extracted)

\* C3 (amended): a file whose read or extraction raises is recorded in
\* failed_uploads and nowhere else, and every other file is still processed:
\* its text is appended to all_texts and it is recorded as already present
\* when the existence check finds it, as uploaded when its upload succeeds and
\* as failed when its own upload fails; every list is in input order.
C3_ExtractionFailureIsolated ==
    /\ results.all_texts = InputTexts(Extracted)
    /\ EntryNames(results.already_in_s3) =
          InputNames({i \in Extracted : trace[i].head = "200"})
    /\ EntryNames(results.uploaded_to_s3) =
          InputNames({i \in Extracted : trace[i].put = "ok"})
    /\ EntryNames(results.failed_uploads) =
          InputNames(Raised \cup {i \in Extracted : trace[i].put = "error"})
    /\ \A i \in Raised : trace[i].head = "none" /\ trace[i].put = "none"

\* C3 witness: the first of two files raised, the second was still uploaded.
C3_Witness ==
    /\ pc = "returned"
    /\ Len(uploaded_files) = 2
    /\ Raised = {1}
    /\ EntryNames(results.failed_uploads) = <<uploaded_files[1].name>>
    /\ EntryNames(results.uploaded_to_s3) = <<uploaded_files[2].name>>
    /\ Len(results.all_texts) = 1

\* C4: when the call returns, every input file is in exactly one of
\* uploaded_to_s3, already_in_s3 and failed_uploads: for every filename the
\* three lists together hold as many entries as the input holds files of
\* that name.
C4_ExactlyOneList ==
    pc = "returned" =>
        LET recorded == EntryNames(results.uploaded_to_s3) \o
                        EntryNames(results.already_in_s3) \o
                        EntryNames(results.failed_uploads)
        IN  /\ Len(recorded) = Len(uploaded_files)
            /\ \A f \in FileNames :
                  CountName(recorded, f) = CountName(InputNames(Done), f)

\* C4 witness: a returned call in which one file failed to upload after a
\* failed existence check and the other was already present.
C4_Witness ==
    /\ pc = "returned"
    /\ Len(uploaded_files) = 2
    /\ Len(results.already_in_s3) = 1
    /\ Len(results.failed_uploads) = 1
    /\ \E i \in Done : trace[i].head = "error" /\ trace[i].put = "error"

\* C15 (as claimed): once the blob of (filename, text) is stored by a
\* successful upload and not deleted, every later existence check for the
\* same (filename, text) reports exists = True, also when the backend fails
\* during the check.
C15_ExistsAfterPut ==
    \A i \in Extracted : trace[i].stored => trace[i].head = "200"

\* how many positions of S are at or before i
Rank(S, i) == Cardinality({j \in S : j <= i})

\* ceil(max(L - O, 0) / (C - O)), with 1 when 0 < L <= C and 0 when L = 0
ChunkCount(L, C, O) ==
    IF L = 0 THEN 0
    ELSE IF L <= C THEN 1
    ELSE ((L - O) + (C - O) - 1) \div (C - O)

\* the text holds no whitespace
OneWord(text) == \A j \in 1..Len(text) : text[j] \notin Whitespace

ExampleFirst == SubSeq(ExampleText, 1, 38)

C18_PresentStillIndexed ==
    \A i \in Extracted :
        trace[i].head = "200" =>
            LET name == uploaded_files[i].name
                text == clean_text(uploaded_files[i].body.text)
                present == {j \in Extracted : trace[j].head = "200"}
            IN  /\ trace[i].put = "none"
                /\ Len(results.already_in_s3) >= Rank(present, i)
                /\ results.already_in_s3[Rank(present, i)] =
                      [filename |-> name,
                       s3_key |-> generate_document_key(name, text)]
                /\ Len(results.all_texts) >= Rank(Extracted, i)
                /\ results.all_texts[Rank(Extracted, i)] = text
                /\ CountName(EntryNames(results.uploaded_to_s3) \o
                             EntryNames(results.failed_uploads), name)
                      = Cardinality({j \in Done : /\ uploaded_files[j].name = name
                                                  /\ j \notin present})

\* C18 witness: the only file of a call was found in the store: nothing was
\* uploaded and its text is in all_texts.
C18_Witness ==
    /\ pc = "returned"
    /\ Len(uploaded_files) = 1
    /\ trace[1].head = "200"
    /\ trace[1].put = "none"
    /\ Len(results.already_in_s3) = 1
    /\ results.uploaded_to_s3 = <<>>
    /\ results.all_texts = <<clean_text(uploaded_files[1].body.text)>>

\* the passes of the re-indexing loop whose download and extraction succeeded
\* with a text that is not empty
Reindexed ==
    {j \in 1..reindex.at :
        /\ reindex.log[j].success
        /\ reindex.log[j].content.kind = "pdf"
        /\ clean_text(reindex.log[j].content.text) # <<>>}

\* C19: process_all_s3_documents_for_vector_storage holds, in listing order,
\* the text of every listed document handled so far whose download and
\* extraction succeeded with a text that is not empty, whatever happened to
\* the other documents; and list_documents_in_s3 lists every object of the
\* bucket, an object whose head_object fails under the name taken from its key.
C19_ReindexContinues ==
    LET docs == reindex.s3_docs
        got == Ascending(Reindexed)
    IN  /\ reindex.all_texts =
              [k \in 1..Len(got) |-> clean_text(reindex.log[got[k]].content.text)]
        /\ {docs[j].key : j \in 1..Len(docs)} = reindex.listed
        /\ Len(docs) = Cardinality(reindex.listed)
        /\ \A j \in 1..Len(docs) :
              /\ j < Len(docs) => LexLess(KeyCodes(docs[j].key), KeyCodes(docs[j + 1].key))
              /\ reindex.heads[j] = "error" => docs[j].filename = KeyTail(docs[j].key)
        /\ reindex.pc = "returned" => reindex.at = Len(docs)

\* C19 witness: two documents were listed, the head_object of the second
\* failed; the first could not be extracted, the second was downloaded and
\* its text returned.
C19_Witness ==
    /\ reindex.pc = "returned"
    /\ Len(reindex.s3_docs) = 2
    /\ reindex.heads[2] = "error"
    /\ reindex.log[1].success
    /\ reindex.log[1].content.kind = "corrupt"
    /\ reindex.log[2].success
    /\ reindex.all_texts = <<clean_text(reindex.log[2].content.text)>>

\* C20 (as claimed): a file whose existence check fails with a backend error
\* other than not-found gets no upload and is recorded in failed_uploads.
C20_CheckErrorSkipsUpload ==
    \A i \in Extracted :
        trace[i].head = "error" =>
            /\ trace[i].put = "none"
            /\ CountName(EntryNames(results.failed_uploads),
                         uploaded_files[i].name) > 0

\* ---------------------------------------------------- vector index: claims

\* session s has just taken the step that leaves pc = at
Stepped(s, at) == sess[s].pc = at /\ sess'[s] # sess[s]

\* the entries that pair the first c texts with the first c vectors
FirstPairs(i, batch_texts, returned, c, seed) ==
    [j \in 1..c |->
        [id |-> [n |-> i + j - 1, h |-> PyHash(batch_texts[j], seed)],
         document |-> batch_texts[j],
         embedding |-> returned[j]]]

\* C5: when the embedding service returns m vectors for a batch of n texts,
\* 0 < m and m # n, the add request of the batch carries exactly the first
\* min(n, m) texts paired with the first min(n, m) returned vectors; when the
\* index accepts it, these and nothing else are added and the stored count
\* grows by min(n, m); the other texts of the batch are left out and the loop
\* goes on behind the batch.
C5_MismatchTruncates ==
    [][\A s \in Sessions :
          Stepped(s, "batch") =>
             LET rec == sess'[s].last
                 n == Len(rec.batch_texts)
                 m == Len(rec.returned)
                 c == IF n < m THEN n ELSE m
             IN  (m > 0 /\ m # n) =>
                    /\ rec.documents = SubSeq(rec.batch_texts, 1, c)
                    /\ rec.embeddings = SubSeq(rec.returned, 1, c)
                    /\ Len(rec.ids) = c
                    /\ rec.add = "ok" =>
                          /\ chroma'.entries =
                                AddEntries(chroma.entries,
                                    FirstPairs(rec.i, rec.batch_texts, rec.returned, c,
                                               sess[s].seed))
                          /\ sess'[s].total_stored = sess[s].total_stored + c
                          /\ sess'[s].i = sess[s].i + BatchSize
                    /\ rec.add # "ok" => chroma' = chroma
      ]_vars

\* C5 witness: one vector came back for a batch of two texts, and one entry
\* was stored.
C5_Witness ==
    \E s \in Sessions :
        /\ Len(sess[s].last.batch_texts) = 2
        /\ Len(sess[s].last.returned) = 1
        /\ sess[s].last.add = "ok"
        /\ Len(sess[s].last.documents) = 1
        /\ sess[s].total_stored = 1
        /\ Len(chroma.entries) = 1

\* C6: a batch whose embedding call returns nothing sends no add request and
\* stores nothing, and the call goes on: to the next batch when there is one,
\* and otherwise it returns the collection, not a failure.
C6_EmbeddingFailureSkipsBatch ==
    [][\A s \in Sessions :
          (Stepped(s, "batch") /\ sess'[s].last.returned = <<>>) =>
             /\ sess'[s].last.add = "none"
             /\ chroma' = chroma
             /\ sess'[s].total_stored = sess[s].total_stored
             /\ sess'[s].err = "none"
             /\ sess'[s].i = sess[s].i + BatchSize
             /\ IF sess[s].i + BatchSize < Len(sess[s].texts)
                THEN sess'[s].pc = "batch"
                ELSE /\ sess'[s].pc = "done"
                     /\ sess'[s].result.kind = "collection"
      ]_vars

\* C6 witness: the first batch got no embeddings, the second was stored and
\* the call returned the collection.
C6_Witness ==
    \E s \in Sessions :
        /\ sess[s].pc = "done"
        /\ sess[s].result.kind = "collection"
        /\ sess[s].last.i = BatchSize
        /\ sess[s].last.add = "ok"
        /\ sess[s].total_stored = Len(sess[s].last.documents)

\* C7 (as claimed): a failed add request (error or timeout) is confined to
\* its batch: the call goes on behind the batch and does not return a failure.
C7_AddFailureConfined ==
    \A s \in Sessions :
        (sess[s].op = "create" /\ sess[s].last.add = "error") =>
            /\ sess[s].i = sess[s].last.i + BatchSize
            /\ sess[s].result.kind # "None"

\* C8: ensure_collection_exists with the backend reachable: when the
\* collection is present, get_collection returns it, nothing is created and
\* the collection and its entries are unchanged; when it is missing, the call
\* goes on to create_collection, which leaves an empty collection present;
\* either way the caller gets a handle to the live collection.
C8_EnsureStateMachine ==
    [][\A s \in Sessions :
          /\ (Stepped(s, "ensure_get") /\ sess'[s].net = "ok") =>
                IF chroma.present
                THEN /\ chroma' = chroma
                     /\ sess'[s].collection = chroma.uid
                     /\ sess'[s].pc \in {"batch", "query", "done"}
                     /\ sess'[s].err = "none"
                ELSE /\ chroma' = chroma
                     /\ sess'[s].pc = "ensure_create"
          /\ (Stepped(s, "ensure_create") /\ sess'[s].net = "ok" /\ ~chroma.present) =>
                /\ chroma'.present
                /\ chroma'.entries = <<>>
                /\ chroma'.uid # chroma.uid
                /\ sess'[s].collection = chroma'.uid
                /\ sess'[s].pc \in {"batch", "query", "done"}
                /\ sess'[s].err = "none"
      ]_vars

\* C8 witness: a retrieval whose ensure step found the collection that an
\* earlier call created and filled.
C8_Witness ==
    \E s \in Sessions :
        /\ sess[s].op = "retrieve"
        /\ sess[s].pc = "query"
        /\ Live(chroma, sess[s].collection)
        /\ Len(chroma.entries) > 0

\* C9 (as claimed): a call whose add or query was answered "not found" has
\* re-run ensure_collection_exists once (two runs in all) before it reports
\* the failure.
C9_SelfHealOnce ==
    \A s \in Sessions :
        (sess[s].pc = "done" /\ sess[s].err = "not_found") => sess[s].ensures = 2

\* C10 (as claimed): a create_chroma_collection or retrieve_relevant_docs
\* call during which another session cleared the collection does not end in
\* a not-found failure.
C10_SurvivesConcurrentClear ==
    \A s \in Sessions :
        (sess[s].pc = "done" /\ sess[s].op \in {"create", "retrieve"})
            => sess[s].err # "not_found"

\* C11: retrieve_relevant_docs never raises: every call ends by returning a
\* sequence of documents, and the sequence is empty when the collection could
\* not be ensured, when the query embedding call failed or gave an empty
\* vector, and when the backend query threw.
C11_RetrievalNeverRaises ==
    \A s \in Sessions :
        (sess[s].op = "retrieve" /\ sess[s].pc = "done") =>
            /\ sess[s].result.kind = "docs"
            /\ sess[s].err \in {"none", "ensure", "embedding", "error", "not_found"}
            /\ sess[s].err # "none" => sess[s].result.docs = <<>>

\* C11 witness: the query of a filled, live collection threw and the call
\* returned the empty sequence.
C11_Witness ==
    \E s \in Sessions :
        /\ sess[s].op = "retrieve"
        /\ sess[s].pc = "done"
        /\ sess[s].err = "error"
        /\ sess[s].result.kind = "docs"
        /\ sess[s].result.docs = <<>>
        /\ Live(chroma, sess[s].collection)
        /\ Len(chroma.entries) > 0

\* C12: a retrieval whose query step finds the collection without entries
\* (also when the ensure step of this call has just created it) returns the
\* empty sequence and raises no error.
C12_EmptyIndexRetrievesNothing ==
    [][\A s \in Sessions :
          (Stepped(s, "query") /\ chroma.entries = <<>>) =>
             /\ sess'[s].pc = "done"
             /\ sess'[s].result.kind = "docs"
             /\ sess'[s].result.docs = <<>>
             /\ chroma' = chroma
      ]_vars

\* C12 witness: the ensure step of the retrieval created the missing
\* collection, the query of the empty collection was answered and the call
\* returned the empty sequence without a failure.
C12_Witness ==
    \E s \in Sessions :
        /\ sess[s].op = "retrieve"
        /\ sess[s].pc = "done"
        /\ sess[s].err = "none"
        /\ sess[s].result.kind = "docs"
        /\ sess[s].result.docs = <<>>
        /\ Live(chroma, sess[s].collection)
        /\ chroma.entries = <<>>
        /\ calls = 1

\* how many entries come before entry a in the answer to the query vector q:
\* the entries nearer to q, and the earlier ones among those as near as a
Before(entries, a, q) ==
    Cardinality({b \in 1..Len(entries) :
        \/ Distance(entries[b].embedding, q) < Distance(entries[a].embedding, q)
        \/ /\ Distance(entries[b].embedding, q) = Distance(entries[a].embedding, q)
           /\ b < a})

C14_NoChunkStoredTwice ==
    \A a, b \in 1..Len(chroma.entries) :
        (/\ chroma.entries[a].id.n = chroma.entries[b].id.n
         /\ chroma.entries[a].document = chroma.entries[b].document)
        => a = b

C22_NoEmptyText ==
    /\ \A j \in 1..Len(results.all_texts) : results.all_texts[j] # <<>>
    /\ \A j \in 1..Len(reindex.all_texts) : reindex.all_texts[j] # <<>>

\* a tag: "<", one or more characters other than ">", then ">"
HasTag(s) ==
    \E p, q \in 1..Len(s) :
        /\ p + 1 < q
        /\ s[p] = "<"
        /\ s[q] = ">"
        /\ \A r \in (p + 1)..(q - 1) : s[r] # ">"

\* C23: what clean_text returns neither begins nor ends with whitespace, holds
\* no two whitespace characters in a row and no tag; it is empty for an
\* empty or all-whitespace text; and clean_text leaves it unchanged.
C23_NormalizerShape ==
    LET text == normalizer.text
        out == normalizer.out
    IN  /\ out # <<>> => (out[1] \notin Whitespace /\ out[Len(out)] \notin Whitespace)
        /\ \A j \in 1..(Len(out) - 1) :
              ~(out[j] \in Whitespace /\ out[j + 1] \in Whitespace)
        /\ ~HasTag(out)
        /\ (\A j \in 1..Len(text) : text[j] \in Whitespace) => out = <<>>
        /\ normalizer.again = out

\* C23 witness: a text that begins with a tag followed by whitespace has been
\* normalized to the word after them
C23_Witness ==
    /\ normalizer.text = <<"<", "a", ">", " ", "a">>
    /\ normalizer.out = <<"a">>

\* the embedding requests a call has issued so far: one per pass of the loop,
\* the last pass being the one at last.i
Requests(st) == IF st.last.i < 0 THEN 0 ELSE st.last.i \div BatchSize + 1

\* C24 (as claimed): a create_chroma_collection call that got its collection
\* handle has, when it ends, issued exactly ceil(n / B) embedding requests for
\* its n texts, each for at most B texts.
C24_BatchPartition ==
    \A s \in Sessions :
        (sess[s].op = "create" /\ sess[s].pc = "done" /\ sess[s].collection # 0) =>
            /\ Requests(sess[s]) = (Len(sess[s].texts) + BatchSize - 1) \div BatchSize
            /\ Len(sess[s].last.batch_texts) <= BatchSize

\* C25: nothing is rolled back: no step of a create_chroma_collection call
\* removes or changes an entry of the index, drops the collection or touches
\* a stored blob, and the step at which the call aborts with an error leaves
\* the index exactly as the batches before it made it.
C25_NoRollback ==
    [][\A s \in Sessions :
          (sess[s].op = "create" /\ sess'[s] # sess[s]) =>
             /\ Len(chroma.entries) <= Len(chroma'.entries)
             /\ SubSeq(chroma'.entries, 1, Len(chroma.entries)) = chroma.entries
             /\ chroma.present => (chroma'.present /\ chroma'.uid = chroma.uid)
             /\ bucket' = bucket
             /\ sess'[s].result.kind = "None" => chroma' = chroma
      ]_vars

\* C25 witness: the call was aborted by an error of the add request of its
\* second batch, and the entries of its first batch are in the index.
C25_Witness ==
    \E s \in Sessions :
        /\ sess[s].op = "create"
        /\ sess[s].result.kind = "None"
        /\ sess[s].last.i = BatchSize
        /\ sess[s].last.add = "error"
        /\ sess[s].total_stored = BatchSize
        /\ Len(chroma.entries) = BatchSize
        /\ \A j \in 1..BatchSize : chroma.entries[j].id.n = j - 1

\* C26 (as claimed): a session whose get_collection was answered "no such
\* collection" and whose create_collection request reached the backend comes
\* out of ensure_collection_exists with a handle of the one collection that
\* exists then, whatever the other session did in between.
C26_ConcurrentEnsure ==
    [][\A s \in Sessions :
          (Stepped(s, "ensure_create") /\ sess[s].net = "ok" /\ sess'[s].net = "ok") =>
             /\ sess'[s].collection # 0
             /\ Live(chroma', sess'[s].collection)
      ]_vars

\* C27: every add request of create_chroma_collection carries at least one
\* entry and as many documents as embeddings and as ids; the stored count
\* grows by the entries of each add request as the loop goes on behind it and
\* by nothing else, so it is the number of entries sent so far; a request
\* that fails ends the call; and the count never exceeds the number of texts.
C27_AlignedAdds ==
    [][\A s \in Sessions :
          Stepped(s, "batch") =>
             LET rec == sess'[s].last
             IN  /\ rec.add # "none" =>
                       /\ Len(rec.documents) >= 1
                       /\ Len(rec.embeddings) = Len(rec.documents)
                       /\ Len(rec.ids) = Len(rec.documents)
                 /\ rec.add = "ok" =>
                       sess'[s].total_stored = sess[s].total_stored + Len(rec.documents)
                 /\ rec.add = "none" => sess'[s].total_stored = sess[s].total_stored
                 /\ rec.add \notin {"ok", "none"} =>
                       /\ sess'[s].total_stored = sess[s].total_stored
                       /\ sess'[s].pc = "done"
                       /\ sess'[s].result.kind = "None"
                 /\ sess'[s].total_stored <= Len(sess'[s].texts)
      ]_vars

\* C27 witness: the call has sent two add requests of one entry each, the
\* second cut from two returned vectors, and has counted the entries of both.
C27_Witness ==
    \E s \in Sessions :
        /\ sess[s].op = "create"
        /\ sess[s].result.kind = "collection"
        /\ Len(sess[s].texts) = BatchSize + 1
        /\ sess[s].last.i = BatchSize
        /\ sess[s].last.add = "ok"
        /\ Len(sess[s].last.returned) = 2
        /\ Len(sess[s].last.documents) = 1
        /\ sess[s].total_stored = 2

====
